---------------------------- MODULE Spec2Model ----------------------------
(***************************************************************************)
(* A model of the query pipeline of the educational data chatbot:         *)
(* QueryProcessor.process_question and the DataManager                    *)
(* (src/src/query_processor.py), the policy (src/src/config.py), the      *)
(* typed errors (src/src/exceptions.py) and the helpers sanitize_input    *)
(* and format_result_for_display (src/src/utils.py).  The validator and   *)
(* the executor are imported by query_processor.py from code_validator    *)
(* and code_executor; they are modelled from sections 4.1 and 4.2 of the  *)
(* specification.                                                          *)
(***************************************************************************)
EXTENDS Integers, Sequences, FiniteSets, TLC

(***************************************************************************)
(* Policy: SecurityConfig (config.py).  The four sets are the configured  *)
(* sets, member for member.                                                *)
(***************************************************************************)
max_input_length == 1000

execution_timeout == 10

max_memory_mb == 512

allowed_operations ==
  {
    "groupby", "agg", "aggregate", "apply", "transform", "pipe", "mean",
    "sum", "count", "std", "var", "min", "max", "median", "quantile",
    "describe", "mode", "sem", "skew", "kurt", "filter", "query", "loc",
    "iloc", "isin", "contains", "between", "isna", "notna", "dropna",
    "fillna", "where", "mask", "merge", "join", "concat", "pivot",
    "pivot_table", "melt", "stack", "unstack", "explode", "crosstab", "corr",
    "cov", "value_counts", "unique", "nunique", "duplicated", "sort_values",
    "sort_index", "reset_index", "set_index", "reindex", "head", "tail",
    "sample", "drop_duplicates", "nlargest", "nsmallest", "str", "lower",
    "upper", "strip", "replace", "split", "dt", "year", "month", "day",
    "hour", "minute", "astype", "to_numeric", "to_datetime", "first", "last",
    "nth", "size", "eq", "ne", "lt", "le", "gt", "ge", "abs", "round",
    "floor", "ceil", "clip", "any", "all", "bool", "shape", "columns",
    "index", "values", "dtypes", "info", "len", "copy", "rename", "assign",
    "bar", "scatter", "line", "pie", "histogram", "box", "violin", "heatmap",
    "treemap", "sunburst", "funnel", "waterfall", "icicle", "scatter_3d",
    "line_3d", "scatter_matrix", "parallel_coordinates", "density_heatmap",
    "density_contour", "area", "ecdf", "scatter_polar", "line_polar",
    "bar_polar", "choropleth", "imshow", "Figure", "Bar", "Scatter", "Pie",
    "Histogram", "Box", "Violin", "Heatmap", "Contour", "Surface", "Mesh3d",
    "Indicator", "Gauge", "Scatterpolar", "Barpolar", "Scatterternary",
    "Sankey", "Treemap", "Sunburst", "Funnel", "Waterfall", "Candlestick",
    "Ohlc", "Table", "Scattergeo", "Choropleth", "Scattermapbox",
    "Densitymapbox", "Scatter3d", "Line3d", "Isosurface", "Volume", "Cone",
    "Streamtube", "update_layout", "update_traces", "update_xaxes",
    "update_yaxes", "add_trace", "add_annotation", "add_shape", "add_vline",
    "add_hline", "add_vrect", "add_hrect", "set_subplots", "make_subplots",
    "data", "layout", "frames", "to_dict", "to_json", "colors",
    "qualitative", "sequential", "diverging", "cyclical", "Set1", "Set2",
    "Set3", "Pastel", "Pastel1", "Pastel2", "Dark2", "Viridis", "Plasma",
    "Inferno", "Magma", "Cividis", "Blues", "Reds", "RdBu", "RdBu_r",
    "Spectral", "Rainbow", "Jet", "Hot", "Cool", "dict", "list", "tuple",
    "range", "enumerate", "zip", "sorted", "format", "f", "tolist", "items",
    "keys", "path", "names", "parents", "ids", "hole", "pull", "textinfo",
    "textposition", "textfont", "insidetextfont", "outsidetextfont",
    "hovertemplate", "hoverinfo", "hoverlabel", "customdata", "marker_color",
    "marker_line", "marker_size", "opacity", "orientation", "barmode",
    "barnorm", "bargap", "bargroupgap", "nbinsx", "nbinsy", "histfunc",
    "histnorm", "cumulative", "trendline", "trendline_color_override",
    "trendline_scope", "color_discrete_sequence", "color_discrete_map",
    "color_continuous_scale", "color_continuous_midpoint", "symbol",
    "symbol_sequence", "symbol_map", "facet_row", "facet_col",
    "facet_col_wrap", "animation_frame", "category_orders", "labels",
    "title", "template", "width", "height", "marginal", "marginal_x",
    "marginal_y", "log_x", "log_y", "range_x", "range_y", "render_mode",
    "hover_name", "hover_data", "text", "error_x", "error_y", "base",
    "pattern_shape", "pattern_shape_sequence", "pattern_shape_map"
  }

blocked_operations ==
  {
    "eval", "exec", "compile", "__import__", "execfile", "input",
    "raw_input", "open", "file", "read", "write", "remove", "delete",
    "rmdir", "mkdir", "chmod", "chown", "unlink", "rename", "listdir",
    "walk", "glob", "scandir", "system", "popen", "call", "run", "spawn",
    "kill", "fork", "wait", "exit", "quit", "abort", "socket", "urllib",
    "requests", "http", "ftp", "smtp", "connect", "send", "recv", "bind",
    "listen", "__builtins__", "__globals__", "__locals__", "__dict__",
    "__class__", "__bases__", "__subclasses__", "__getattribute__",
    "__setattr__", "__delattr__", "__code__", "__func__", "getattr",
    "setattr", "delattr", "hasattr", "vars", "dir", "globals", "locals",
    "type", "object", "pickle", "marshal", "dill", "shelve", "load", "loads",
    "dump", "dumps", "subprocess", "Popen", "check_output", "check_call",
    "importlib", "__loader__", "__spec__"
  }

blocked_modules ==
  {
    "os", "sys", "subprocess", "shutil", "pickle", "marshal", "socket",
    "urllib", "requests", "http", "ftplib", "smtplib", "sqlite3", "ctypes",
    "multiprocessing", "threading", "asyncio", "importlib", "builtins",
    "code", "codeop", "compile", "gc", "inspect", "traceback", "linecache",
    "tempfile", "pathlib", "io", "zipfile", "tarfile", "gzip", "bz2"
  }

allowed_variables ==
  {
    "df", "pd", "np", "result", "filtered", "grouped", "merged", "temp",
    "data", "subset", "output", "stats", "summary", "px", "go", "fig",
    "figure", "chart", "plot", "trace", "traces", "colors", "layout",
    "annotation", "annotations", "shape", "shapes", "corr", "numeric_cols",
    "courses", "levels", "genders", "row", "col", "i", "j", "x", "y", "z",
    "r", "theta", "label", "labels", "value", "avg_score", "top_students",
    "level", "course", "gender", "score", "path", "parent", "parents", "ids",
    "names", "values", "text", "hover_data", "color", "size", "symbol",
    "opacity", "line", "marker", "counts", "totals", "means", "averages",
    "sums", "students_data", "distribution", "metrics", "categories",
    "series", "column", "columns", "rows", "idx", "index", "title", "name",
    "mode", "fill", "showlegend", "legendgroup", "make_subplots", "subplot",
    "axis", "polar", "radialaxis"
  }

\* A faulty variant: a configuration with laxer limits.
SecurityConfigLax ==
  [ max_input_length |-> max_input_length * 10,
    execution_timeout |-> execution_timeout * 6,
    max_memory_mb |-> max_memory_mb * 4,
    allowed_operations |-> allowed_operations \cup blocked_operations,
    blocked_operations |-> {},
    blocked_modules |-> {},
    allowed_variables |-> allowed_variables ]

\* SecurityConfig(): the frozen dataclass with its defaults.
SecurityConfig ==
  [ max_input_length |-> max_input_length,
    execution_timeout |-> execution_timeout,
    max_memory_mb |-> max_memory_mb,
    allowed_operations |-> allowed_operations,
    blocked_operations |-> blocked_operations,
    blocked_modules |-> blocked_modules,
    allowed_variables |-> allowed_variables ]

\* AppConfig(): the global configuration instance, as far as the policy goes.
AppConfig == [ security |-> SecurityConfig ]

(***************************************************************************)
(* exceptions.py                                                           *)
(***************************************************************************)
ErrorCode ==
  [ LLM_CONNECTION_ERROR |-> 101, LLM_TIMEOUT |-> 102,
    LLM_INVALID_RESPONSE |-> 103, CODE_EXTRACTION_FAILED |-> 104,
    VALIDATION_FAILED |-> 201, BLOCKED_OPERATION |-> 202,
    BLOCKED_MODULE |-> 203, SYNTAX_ERROR |-> 204, UNKNOWN_OPERATION |-> 205,
    EXECUTION_FAILED |-> 301, EXECUTION_TIMEOUT |-> 302,
    MEMORY_LIMIT |-> 303, RUNTIME_ERROR |-> 304,
    SECURITY_VIOLATION |-> 401, INPUT_TOO_LONG |-> 402,
    INJECTION_ATTEMPT |-> 403,
    DATA_LOAD_ERROR |-> 501, INVALID_COLUMN |-> 502,
    DATA_TYPE_ERROR |-> 503 ]

\* Python's None where the field is an Optional[str].
None == "<None>"

\* A ChatbotError instance: code is the name of an ErrorCode member, text is
\* str(e) = "[CODE] message".
ChatbotError(cls, message, code, user_message) ==
  [ cls |-> cls, chatbot |-> TRUE, message |-> message, code |-> code,
    user_message |-> user_message,
    text |-> "[" \o code \o "] " \o message ]

\* Any exception that is not a ChatbotError: it has no code and no
\* user_message attribute, and str(e) is its message.
PlainException(cls, message) ==
  [ cls |-> cls, chatbot |-> FALSE, message |-> message, code |-> None,
    user_message |-> None, text |-> message ]

CodeGenerationError(message, code) ==
  ChatbotError("CodeGenerationError", message, code,
    "I couldn't generate the code for your question. Please try rephrasing.")

\* violations is the sequence of violation strings (at most two are shown).
CodeValidationError(message, violations, code) ==
  ChatbotError("CodeValidationError", message, code,
    IF code = "SYNTAX_ERROR"
      THEN "Syntax error in generated code: " \o message
           \o ". The AI generated invalid code. Please try rephrasing your question."
    ELSE IF Len(violations) > 0
      THEN "Security validation failed: "
           \o (IF Len(violations) = 1 THEN violations[1]
               ELSE violations[1] \o ", " \o violations[2])
           \o ". Please try a different question."
    ELSE "The generated code contains unsafe operations. Please try a different question.")

\* blocked_item is the offending identifier, "lambda", or the comma-separated
\* names of the imports attempted (the text left once the list brackets and
\* quotes are stripped); the substring tests of the constructor are equalities
\* on these values.
SecurityViolationError(message, violation_type, blocked_item) ==
  ChatbotError("SecurityViolationError", message, "SECURITY_VIOLATION",
    IF blocked_item = "lambda"
      THEN "Lambda functions are not supported. Please try a different query."
    ELSE IF violation_type = "import"
      THEN "Import statements are not allowed (attempted: " \o blocked_item
           \o "). All libraries (px, go, pd, np, df) are already imported. Please rephrase your question."
    ELSE "Security block: " \o blocked_item
           \o ". Please try rephrasing your question.")

CodeExecutionError(message, code) ==
  ChatbotError("CodeExecutionError", message, code,
    "There was an error executing the analysis. Please try a different question.")

ExecutionTimeoutError(timeout_seconds) ==
  [ CodeExecutionError("Code execution timed out after "
        \o ToString(timeout_seconds) \o " seconds", "EXECUTION_TIMEOUT")
    EXCEPT !.cls = "ExecutionTimeoutError",
           !.user_message = "The query took too long. Please try a simpler question." ]

DataLoadError(message) ==
  ChatbotError("DataLoadError", message, "DATA_LOAD_ERROR",
    "Could not load the data file. Please check if it exists.")

InputValidationError(message) ==
  ChatbotError("InputValidationError", message, "INPUT_TOO_LONG", message)

\* The outcome of a call: a returned value or a raised exception.
Returned(v) == [ raised |-> FALSE, value |-> v ]

Raised(e) == [ raised |-> TRUE, exc |-> e ]

(***************************************************************************)
(* utils.sanitize_input.  A question is its length in characters, the     *)
(* number of those that are leading or trailing whitespace, and whether   *)
(* it matches one of the dangerous patterns.                               *)
(***************************************************************************)
\* A faulty variant: the length is checked after the whitespace is stripped.
sanitize_input_strip_first(text, max_length) ==
  IF text.len - text.pad > max_length
    THEN Raised(PlainException("ValueError",
           "Input too long. Maximum " \o ToString(max_length)
           \o " characters allowed."))
  ELSE IF text.unsafe
    THEN Raised(PlainException("ValueError",
           "Input contains potentially unsafe patterns."))
  ELSE Returned([ len |-> text.len - text.pad, pad |-> 0, unsafe |-> FALSE ])

sanitize_input(text, max_length) ==
  IF text.len > max_length
    THEN Raised(PlainException("ValueError",
           "Input too long. Maximum " \o ToString(max_length)
           \o " characters allowed."))
  ELSE IF text.unsafe
    THEN Raised(PlainException("ValueError",
           "Input contains potentially unsafe patterns."))
  ELSE Returned([ len |-> text.len - text.pad, pad |-> 0, unsafe |-> FALSE ])

\* QueryProcessor._validate_input, reading the limit from the security
\* settings of the global configuration.
validate_input_with(security, question) ==
  LET r == sanitize_input(question, security.max_input_length)
  IN IF r.raised THEN Raised(InputValidationError(r.exc.text)) ELSE r

\* QueryProcessor._validate_input under the configuration of process start.
validate_input(question) == validate_input_with(SecurityConfig, question)

(***************************************************************************)
(* utils.clean_code, the removal of trailing comments.  A line of code is *)
(* the sequence of the pieces that line.split('#') yields, and for each   *)
(* '#' between two pieces whether it stands inside a string literal.  A   *)
(* piece is its length, how many of its last characters are whitespace,   *)
(* and whether it is whitespace only.                                      *)
(***************************************************************************)
Piece(len, trail, blank) == [ len |-> len, trail |-> trail, blank |-> blank ]

CodeLine(parts, quoted) == [ parts |-> parts, quoted |-> quoted ]

\* str.rstrip() of a piece.
RStrip(piece) == [ piece EXCEPT !.len = @ - piece.trail, !.trail = 0 ]

\* len(line): the pieces and the '#' characters between them.
RECURSIVE SumLen(_, _)
SumLen(parts, i) ==
  IF i > Len(parts) THEN 0 ELSE parts[i].len + SumLen(parts, i + 1)

LineLen(line) == SumLen(line.parts, 1) + Len(line.parts) - 1

Kept(line) == [ kept |-> TRUE, line |-> line ]

Dropped == [ kept |-> FALSE ]

\* clean_code, for one line of the last loop: a line without '#' is kept; a
\* line with code before its first '#' is kept whole when what follows that
\* '#' up to the next one is shorter than 30 characters, and is cut at the
\* first '#' otherwise; a line with nothing but whitespace before its first
\* '#' is kept when it is shorter than 50 characters and dropped otherwise.
clean_code_line(line) ==
  IF Len(line.parts) = 1
    THEN Kept(line)
    ELSE IF ~line.parts[1].blank
           THEN IF line.parts[2].len < 30
                  THEN Kept(line)
                  ELSE Kept(CodeLine(<< RStrip(line.parts[1]) >>, <<>>))
           ELSE IF LineLen(line) < 50 THEN Kept(line) ELSE Dropped

(***************************************************************************)
(* Candidate code.  A code text is whether it parses, whether it carries  *)
(* a display-only artifact (a trailing long comment), and the sequence of *)
(* the syntax nodes the validator looks at, each with its identifier:     *)
(*   import  an import of the module id                                    *)
(*   name    a plain name, the root of a dotted path included             *)
(*   attr    an attribute access  .id                                      *)
(*   call    a function or method call  id(...)                            *)
(*   lambda  a lambda literal (id is "lambda")                             *)
(***************************************************************************)
NodeKinds == {"import", "name", "attr", "call", "lambda"}

\* The name the dataset is bound to in the execution namespace.
DatasetName == "df"

Node(kind, id) == [ kind |-> kind, id |-> id ]

Code(parses, comment, nodes) ==
  [ parses |-> parses, comment |-> comment, nodes |-> nodes ]

NodesOf(code) == { code.nodes[i] : i \in 1..Len(code.nodes) }

\* A module is attempted by importing it (any import is refused: the
\* generated code gets its libraries from the namespace) or by naming a
\* blocked module as the root of a dotted path.
IsModuleAttempt(n) ==
  \/ n.kind = "import"
  \/ n.kind = "name" /\ n.id \in blocked_modules

IsBlockedOperation(n) ==
  n.kind \in {"name", "attr", "call"} /\ n.id \in blocked_operations

IsLambda(n) == n.kind = "lambda"

\* The distinct identifiers of the nodes ns, in order of first appearance,
\* joined by ", ".
RECURSIVE JoinDistinct(_, _)
JoinDistinct(ns, seen) ==
  IF ns = <<>> THEN ""
  ELSE LET id == Head(ns).id
           rest == JoinDistinct(Tail(ns), seen \cup {id})
       IN IF id \in seen THEN rest
          ELSE IF rest = "" THEN id ELSE id \o ", " \o rest

\* The warnings of an accepted code, in node order: a call of an identifier
\* absent from allowed_operations, a plain name absent from
\* allowed_variables.
RECURSIVE Warnings(_, _)
Warnings(code, i) ==
  IF i > Len(code.nodes) THEN <<>>
  ELSE LET n == code.nodes[i]
       IN (IF n.kind = "call" /\ n.id \notin allowed_operations
             THEN << "Unknown operation: " \o n.id >>
           ELSE IF n.kind = "name" /\ n.id \notin allowed_variables
             THEN << "Unknown variable: " \o n.id >>
           ELSE <<>>) \o Warnings(code, i + 1)

\* Step 3 of the validator: the display-only artifacts are stripped.
Sanitize(code) == [ code EXCEPT !.comment = FALSE ]

ValidationResult(sanitized_code, warnings) ==
  [ sanitized_code |-> sanitized_code, warnings |-> warnings ]

\* code_validator.validate_code (specification, section 4.1): a rejection is
\* raised, an acceptance returns the ValidationResult.
validate_code(code) ==
  LET mods == SelectSeq(code.nodes, IsModuleAttempt)
      ops  == SelectSeq(code.nodes, IsBlockedOperation)
      lams == SelectSeq(code.nodes, IsLambda)
  IN IF ~code.parses
       THEN Raised(CodeValidationError("invalid syntax", <<>>, "SYNTAX_ERROR"))
     ELSE IF mods # <<>>
       THEN Raised(SecurityViolationError("Import not allowed", "import",
                     JoinDistinct(mods, {})))
     ELSE IF ops # <<>>
       THEN Raised(SecurityViolationError("Blocked operation", "operation",
                     Head(ops).id))
     ELSE IF lams # <<>>
       THEN Raised(SecurityViolationError("Lambda not allowed", "lambda",
                     "lambda"))
     ELSE Returned(ValidationResult(Sanitize(code), Warnings(code, 1)))

(***************************************************************************)
(* Results.  A result value is its kind and a size: the row count of a    *)
(* DataFrame or Series, the number of traces of a figure, the value of a  *)
(* scalar, the length of a list.  NoneValue is Python's None.              *)
(***************************************************************************)
Value(kind, n) == [ kind |-> kind, n |-> n ]

NoneValue == Value("none", 0)

\* A faulty variant: every numeric scalar counts as a Python number.
PythonNumbersAndNumpy ==
  {"int", "float", "bool", "numpy_float64", "numpy_int64"}

\* The kinds of value that isinstance(result, (int, float)) accepts: int,
\* float and their subclasses bool and numpy.float64.  numpy.int64 is no
\* subclass of int.
PythonNumbers == {"int", "float", "bool", "numpy_float64"}

\* A faulty variant: the last rows start one row early.
TailRowsOneEarly(n, k) ==
  [ i \in 1..(IF n < k THEN n ELSE k) |-> (IF n < k THEN 0 ELSE n - k) + i - 1 ]

\* The rows a..b of a table, in order.
Rows(a, b) == [ i \in 1..(b - a + 1) |-> a + i - 1 ]

\* DataFrame.head(k) and DataFrame.tail(k) of a table of n rows.
HeadRows(n, k) == Rows(1, IF n < k THEN n ELSE k)

TailRows(n, k) == Rows((IF n < k THEN 0 ELSE n - k) + 1, n)

DisplayText(header, rows) == [ header |-> header, rows |-> rows ]

\* utils.format_result_for_display: (text, result_type).  The text of a
\* table is its header line and the rows that to_string() prints.  An object
\* whose string conversion fails makes the call raise.
format_result_for_display(result) ==
  CASE result.kind = "figure" ->
         Returned([ text |-> DisplayText("Visualization (" \o ToString(result.n)
                                          \o " data series)", <<>>),
                    type |-> "plotly_figure" ])
    [] result.kind = "dataframe" ->
         Returned([ text |->
                      IF result.n > 20
                        THEN DisplayText("Showing first 10 and last 10 of "
                                           \o ToString(result.n) \o " rows:",
                                         HeadRows(result.n, 10) \o TailRows(result.n, 10))
                        ELSE DisplayText("", Rows(1, result.n)),
                    type |-> "dataframe" ])
    [] result.kind = "series" ->
         Returned([ text |->
                      IF result.n > 20
                        THEN DisplayText("Showing first 10 and last 10 of "
                                           \o ToString(result.n) \o " items:",
                                         HeadRows(result.n, 10) \o TailRows(result.n, 10))
                        ELSE DisplayText("", Rows(1, result.n)),
                    type |-> "series" ])
    [] result.kind \in PythonNumbers ->
         Returned([ text |-> DisplayText(ToString(result.n), <<>>),
                    type |-> "scalar" ])
    [] result.kind \in {"list", "tuple"} ->
         Returned([ text |-> DisplayText("list of " \o ToString(result.n), <<>>),
                    type |-> "list" ])
    [] result.kind = "unprintable" ->
         Raised(PlainException("TypeError", "__str__ returned non-string"))
    [] OTHER ->
         Returned([ text |-> DisplayText(IF result = NoneValue THEN "None"
                                         ELSE result.kind, <<>>),
                    type |-> "other" ])

(***************************************************************************)
(* QueryResult (query_processor.py).  data None is NoneValue, code "" is  *)
(* EmptyCode, an unset error or error_code is None.                        *)
(***************************************************************************)
EmptyCode == Code(TRUE, FALSE, <<>>)

QueryResult(success, question, answer, data, data_type, code, execution_time_ms, generation_time_ms, total_time_ms, error, error_code, warnings) ==
  [ success |-> success, question |-> question, answer |-> answer,
    data |-> data, data_type |-> data_type, code |-> code,
    execution_time_ms |-> execution_time_ms,
    generation_time_ms |-> generation_time_ms,
    total_time_ms |-> total_time_ms,
    error |-> error, error_code |-> error_code, warnings |-> warnings ]

\* A faulty variant: the answer of an error result is the bare error text.
create_error_result_bare_answer(question, error, error_code, total_time, code) ==
  QueryResult(FALSE, question, error, NoneValue, "none", code,
              0, 0, total_time, error, error_code, <<>>)

\* QueryProcessor._create_error_result
create_error_result(question, error, error_code, total_time, code) ==
  QueryResult(FALSE, question, "Error: " \o error, NoneValue, "none", code,
              0, 0, total_time, error, error_code, <<>>)

(***************************************************************************)
(* The collaborators whose behaviour is the environment's choice.         *)
(***************************************************************************)
\* code_generator: a GenerationResult (success with some candidate code, or
\* failure with none), or an exception.
GenerationResult(success, code, generation_time_ms) ==
  [ success |-> success, code |-> code,
    generation_time_ms |-> generation_time_ms ]

GenerationOutcomes(codes) ==
  { Returned(GenerationResult(TRUE, c, 3)) : c \in codes }
    \cup { Returned(GenerationResult(FALSE, EmptyCode, 3)),
           Raised(CodeGenerationError("Empty response", "LLM_INVALID_RESPONSE")),
           Raised(PlainException("ConnectionError", "connection refused")) }

\* code_validator: the verdict of validate_code, or an exception that is not
\* a rejection (a failure of the validator itself).
ValidationOutcomes(code) ==
  { validate_code(code),
    Raised(PlainException("RecursionError", "maximum recursion depth exceeded")) }

\* code_executor.execute_code (specification, section 4.2): an
\* ExecutionResult.  What the sandboxed code does is the environment's
\* choice: it completes with a value, raises, runs past the deadline or past
\* the memory ceiling; every one of these is returned, not raised.  cause
\* records which it was.  A failure of the executor itself is an exception.
ExecutionResult(success, result, error, execution_time_ms) ==
  [ success |-> success, result |-> result, error |-> error,
    execution_time_ms |-> execution_time_ms ]

Executed(cause, outcome) == [ cause |-> cause, outcome |-> outcome ]

ExecutionOutcomes(values) ==
  { Executed("completed", Returned(ExecutionResult(TRUE, v, None, 5))) :
      v \in values }
    \cup
  { Executed("runtime",
      Returned(ExecutionResult(FALSE, NoneValue, "division by zero", 5))),
    Executed("runtime", Returned(ExecutionResult(FALSE, NoneValue, "", 5))),
    Executed("timeout",
      Returned(ExecutionResult(FALSE, NoneValue,
        "Code execution timed out after " \o ToString(execution_timeout)
          \o " seconds", execution_timeout * 1000))),
    Executed("memory",
      Returned(ExecutionResult(FALSE, NoneValue,
        "Memory limit of " \o ToString(max_memory_mb) \o " MB exceeded", 5))),
    Executed("raised",
      Raised(CodeExecutionError("worker could not be started",
                                "EXECUTION_FAILED"))),
    Executed("raised", Raised(PlainException("OSError", "out of pids"))) }

(***************************************************************************)
(* State.                                                                  *)
(***************************************************************************)
\* How many times the model lets the data file be read, and the schema be
\* extracted.
MaxReads == 3

MaxExtracts == 3

\* The users whose questions are in flight.
Procs == {"u1", "u2"}

VARIABLES
  pc,         \* where each process_question call is
  frame,      \* the locals of each call
  ret,        \* what each call returned: <<>> or <<QueryResult>>
  asked,      \* the question each call was given
  calls,      \* the stages each call has invoked, in order
  execArg,    \* the code each call handed to execute_code
  sandbox,    \* what the sandboxed code of each call did
  fault,      \* the exception a stage of each call raised, and the stage
  respArg,    \* the code each call handed to the response generator
  responder,  \* what the response generator of each call did
  effect,     \* what the sandboxed code of each call did to the dataset
  touched,    \* the DataFrames of the callers that were changed in place
  dm_df,      \* DataManager._df: 0 is None, k > 0 the k-th DataFrame read
  dm_schema,  \* DataManager._schema: 0 is None, k > 0 the schema of k
  reads,      \* how many times the data file has been read
  config,     \* the global configuration instance
  cleaning,   \* a line of code handed to clean_code, and what came back
  dm_log      \* the DataManager's calls: counts, and the last call

vars == << pc, frame, ret, asked, calls, execArg, sandbox, fault, respArg,
           responder,
           effect, touched, dm_df, dm_schema, reads, config,
           cleaning, dm_log >>

Unset == [ unset |-> TRUE ]

NoFrame ==
  [ question |-> Unset, df |-> 0, schema |-> 0, gen |-> Unset,
    val |-> Unset, warnings |-> <<>>, exe |-> Unset, fmt |-> Unset ]

\* A call of the DataManager: the method, its force_reload or force_refresh
\* argument, how it ended ("returned", or
\* "read_failed" when reading the data file raised, or "extract_failed" when
\* extract_schema raised), the cached DataFrame and schema it found, and what
\* it returned.
DmCall(op, force, outcome, df, schema, returned) ==
  [ op |-> op, force |-> force, outcome |-> outcome, df |-> df,
    schema |-> schema, returned |-> returned ]

NoCall == DmCall("none", FALSE, "returned", 0, 0, 0)

NoCleaning == [ line |-> Unset, out |-> Unset ]

\* The state at process start, but for the line being cleaned.
InitCalls ==
  /\ pc = [ p \in Procs |-> "idle" ]
  /\ frame = [ p \in Procs |-> NoFrame ]
  /\ ret = [ p \in Procs |-> <<>> ]
  /\ asked = [ p \in Procs |-> Unset ]
  /\ calls = [ p \in Procs |-> <<>> ]
  /\ execArg = [ p \in Procs |-> Unset ]
  /\ sandbox = [ p \in Procs |-> "none" ]
  /\ fault = [ p \in Procs |-> Unset ]
  /\ respArg = [ p \in Procs |-> Unset ]
  /\ responder = [ p \in Procs |-> "none" ]
  /\ effect = [ p \in Procs |-> "none" ]
  /\ touched = {}
  /\ dm_df = 0
  /\ dm_schema = 0
  /\ reads = 0
  /\ config = AppConfig
  /\ dm_log = [ forced |-> 0, extracts |-> 0, refreshes |-> 0, last |-> NoCall ]

Init == InitCalls /\ cleaning = NoCleaning

(***************************************************************************)
(* QueryProcessor.process_question.                                        *)
(***************************************************************************)
\* total_time: the time since start_time, which grows with the stages run.
TotalTime(f) ==
  1 + (IF f.gen = Unset THEN 0 ELSE f.gen.generation_time_ms)
    + (IF f.exe = Unset THEN 0 ELSE f.exe.execution_time_ms)

\* A faulty variant: only ChatbotError is handled, anything else leaves
\* process_question.
OuterHandlerChatbotOnly(f, e) ==
  IF e.chatbot
    THEN Returned(create_error_result(f.question, e.user_message, e.code,
                                      TotalTime(f), EmptyCode))
    ELSE Raised(e)

\* The two outer handlers: except ChatbotError, except Exception.
OuterHandler(f, e) ==
  IF e.chatbot
    THEN Returned(create_error_result(f.question, e.user_message, e.code,
                                      TotalTime(f), EmptyCode))
    ELSE Returned(create_error_result(f.question,
                    "An unexpected error occurred. Please try again.",
                    "UNEXPECTED_ERROR", TotalTime(f), EmptyCode))

\* The handler around step 4: except (CodeValidationError, Exception).
ValidationHandler(f, e) ==
  Returned(create_error_result(f.question,
             IF e.chatbot THEN e.user_message ELSE e.text,
             "VALIDATION_FAILED", TotalTime(f), EmptyCode))

\* Where the call goes after each step that can fail.
StageAfterGenerate(gen_result) ==
  IF ~gen_result.success THEN "done" ELSE "validate"

\* Faulty variants: a rejected code is generated again; a rejection is
\* ignored.
StageAfterValidateRetry(r) == IF r.raised THEN "generate" ELSE "execute"

StageAfterValidateIgnored(r) == "execute"

StageAfterValidate(r) == IF r.raised THEN "done" ELSE "execute"

\* A faulty variant: a run without an output value counts as a failure.
StageAfterExecuteNeedsValue(exec_result) ==
  IF ~exec_result.success \/ exec_result.result = NoneValue
    THEN "done" ELSE "format"

\* A faulty variant: the failure of the execution is not checked.
StageAfterExecuteUnchecked(exec_result) == "format"

StageAfterExecute(exec_result) ==
  IF ~exec_result.success THEN "done" ELSE "format"

\* A faulty variant: the candidate code is executed as generated.
ExecArgumentRaw(f) == f.gen.code

\* The code step 5 hands to the executor.
ExecArgument(f) == f.val.sanitized_code

\* A faulty variant: each warning is put in front of the ones before it.
ExtendWarningsInFront(warnings, val_result) ==
  [ i \in 1..Len(val_result.warnings) |->
      val_result.warnings[Len(val_result.warnings) + 1 - i] ] \o warnings

\* Step 4: warnings.extend(val_result.warnings)
ExtendWarnings(warnings, val_result) == warnings \o val_result.warnings

\* The code step 6 hands to the response generator, and the code the success
\* result reports: gen_result.code.
ResponseArgument(f) == f.gen.code

ResultCode(f) == f.gen.code

\* The dataset step 5 hands to the executor: df, the DataFrame that
\* DataManager.df returned, itself.
DatasetArgument(f) == f.df

\* A faulty variant: the generated code runs on the caller's DataFrame, and
\* an in-place change of it is a change of the caller's object.
TouchedBySharedExecution(objs, df, eff) ==
  IF eff = "mutate" THEN objs \cup { df } ELSE objs

\* code_executor.execute_code (specification, sections 3 and 5): the generated
\* code runs on a private copy of the dataset it is handed; rebinding the
\* dataset name or changing the copy in place leaves the caller's DataFrame
\* as it was.
TouchedByExecution(objs, df, eff) == objs

\* response_generator.generate_response: the collaborator's text, or an
\* exception (its client fails, or the model server does not answer).
ResponseOutcomes ==
  { Returned([ by |-> "response_generator", prefix |-> "",
               results |-> DisplayText("", <<>>) ]),
    Raised(PlainException("ConnectionError", "connection refused")),
    Raised(CodeGenerationError("Request timed out", "LLM_TIMEOUT")) }

\* A faulty variant: the collaborator's exception is not caught.
generate_response_unguarded(outcome, results) == outcome

\* QueryProcessor._generate_response: the collaborator's text, or, when it
\* raises, the fallback text around the display text.
generate_response(outcome, results) ==
  IF outcome.raised
    THEN Returned([ by |-> "fallback", prefix |-> "Here are the results:\n\n",
                    results |-> results ])
    ELSE outcome

\* The call ends: with a returned QueryResult, or with an exception that
\* leaves process_question.
Complete(p, c) ==
  /\ pc' = [ pc EXCEPT ![p] = IF c.raised THEN "raised" ELSE "done" ]
  /\ ret' = [ ret EXCEPT ![p] = IF c.raised THEN <<>> ELSE << c.value >> ]

Goto(p, stage) ==
  /\ pc' = [ pc EXCEPT ![p] = stage ]
  /\ UNCHANGED ret

Called(p, stage) == calls' = [ calls EXCEPT ![p] = Append(@, stage) ]

Start(p, questions) ==
  /\ pc[p] = "idle"
  /\ \E q \in questions :
       /\ asked' = [ asked EXCEPT ![p] = q ]
       /\ frame' = [ frame EXCEPT ![p] = [ NoFrame EXCEPT !.question = q ] ]
  /\ Goto(p, "input")
  /\ UNCHANGED << respArg, responder, effect, touched, calls, execArg,
                  sandbox, fault, dm_df, dm_schema, reads, config, cleaning,
                  dm_log >>

\* Step 1: question = self._validate_input(question)
ValidateInput(p) ==
  /\ pc[p] = "input"
  /\ Called(p, "validate_input")
  /\ LET r == validate_input_with(config.security, frame[p].question)
     IN IF r.raised
          THEN /\ fault' = [ fault EXCEPT ![p] =
                               [ stage |-> "validate_input", exc |-> r.exc ] ]
               /\ Complete(p, OuterHandler(frame[p], r.exc))
               /\ UNCHANGED frame
          ELSE /\ frame' = [ frame EXCEPT ![p].question = r.value ]
               /\ Goto(p, "load")
               /\ UNCHANGED fault
  /\ UNCHANGED << respArg, responder, effect, touched, asked, execArg,
                  sandbox, dm_df, dm_schema, reads, config, cleaning,
                  dm_log >>

\* pd.read_excel: a new DataFrame, or an exception, which load_data raises
\* as a DataLoadError.
ReadErrors ==
  { DataLoadError("Data file not found"),
    DataLoadError("Error loading data: " \o "Worksheet named 'Sheet1' not found") }

\* A faulty variant: a failed read leaves no DataFrame cached.
DfAfterFailedLoadCleared(df) == 0

\* self._df after read_excel raised: the assignment did not take place.
DfAfterFailedLoad(df) == df

\* A faulty variant: the data file is read at every call.
MustReadAlways(df, force_reload) == TRUE

\* load_data: if self._df is None or force_reload
MustRead(df, force_reload) == df = 0 \/ force_reload

\* get_schema: if self._schema is None or force_refresh
MustExtract(schema, force_refresh) == schema = 0 \/ force_refresh

Logged(call) == dm_log' = [ dm_log EXCEPT !.last = call ]

\* Step 2, df = self.data_manager.df: load_data() finds the DataFrame cached
\* and returns it, or goes on to read the file.
LoadCheck(p) ==
  /\ pc[p] = "load"
  /\ Called(p, "load_data")
  /\ IF ~MustRead(dm_df, FALSE)
       THEN /\ frame' = [ frame EXCEPT ![p].df = dm_df ]
            /\ Goto(p, "schema")
            /\ Logged(DmCall("load_data", FALSE, "returned",
                             dm_df, dm_schema, dm_df))
       ELSE /\ Goto(p, "read")
            /\ UNCHANGED << frame, dm_log >>
  /\ UNCHANGED << respArg, responder, effect, touched, asked, execArg,
                  sandbox, fault, dm_df, dm_schema, reads, config, cleaning >>

\* load_data(): pd.read_excel returns a new DataFrame, which is cached and
\* returned, or fails, which is raised as a DataLoadError.
LoadRead(p) ==
  /\ pc[p] = "read"
  /\ \/ /\ reads' = reads + 1
        /\ dm_df' = reads + 1
        /\ frame' = [ frame EXCEPT ![p].df = reads + 1 ]
        /\ Goto(p, "schema")
        /\ Logged(DmCall("load_data", FALSE, "returned",
                         dm_df, dm_schema, reads + 1))
        /\ UNCHANGED fault
     \/ \E e \in ReadErrors :
          /\ fault' = [ fault EXCEPT ![p] = [ stage |-> "load_data", exc |-> e ] ]
          /\ Complete(p, OuterHandler(frame[p], e))
          /\ dm_df' = DfAfterFailedLoad(dm_df)
          /\ Logged(DmCall("load_data", FALSE, "read_failed",
                           dm_df, dm_schema, 0))
          /\ UNCHANGED << frame, reads >>
  /\ UNCHANGED << respArg, responder, effect, touched, asked, calls, execArg,
                  sandbox, dm_schema, config, cleaning >>

\* Step 2, schema = self.data_manager.schema: get_schema() finds the schema
\* cached and returns it, or goes on to extract it.
SchemaCheck(p) ==
  /\ pc[p] = "schema"
  /\ Called(p, "get_schema")
  /\ IF ~MustExtract(dm_schema, FALSE)
       THEN /\ frame' = [ frame EXCEPT ![p].schema = dm_schema ]
            /\ Goto(p, "generate")
            /\ Logged(DmCall("get_schema", FALSE, "returned",
                             dm_df, dm_schema, dm_schema))
       ELSE /\ Goto(p, "extract")
            /\ UNCHANGED << frame, dm_log >>
  /\ UNCHANGED << respArg, responder, effect, touched, asked, execArg,
                  sandbox, fault, dm_df, dm_schema, reads, config, cleaning >>

\* get_schema(): df = self.load_data() returns the cached DataFrame (there is
\* one: this call loaded it and nothing unsets it); extract_schema(df) is
\* cached and returned, or raises.
SchemaExtract(p) ==
  /\ pc[p] = "extract"
  /\ dm_df # 0
  /\ \/ /\ dm_schema' = dm_df
        /\ frame' = [ frame EXCEPT ![p].schema = dm_df ]
        /\ Goto(p, "generate")
        /\ dm_log' = [ dm_log EXCEPT !.extracts = @ + 1,
                         !.last = DmCall("get_schema", FALSE, "returned",
                                         dm_df, dm_schema, dm_df) ]
        /\ UNCHANGED fault
     \/ LET e == PlainException("TypeError", "unhashable type: 'list'")
        IN /\ fault' = [ fault EXCEPT ![p] =
                           [ stage |-> "get_schema", exc |-> e ] ]
           /\ Complete(p, OuterHandler(frame[p], e))
           /\ Logged(DmCall("get_schema", FALSE, "extract_failed",
                            dm_df, dm_schema, 0))
           /\ UNCHANGED << frame, dm_schema >>
  /\ UNCHANGED << respArg, responder, effect, touched, asked, calls, execArg,
                  sandbox, dm_df, reads, config, cleaning >>

\* No process_question call is running: the DataManager is called directly,
\* one call after the other.
Sequential == \A p \in Procs : pc[p] \in {"idle", "done", "raised"}

\* DataManager.load_data(force_reload), called directly.
LoadData(force_reload) ==
  /\ Sequential
  /\ IF MustRead(dm_df, force_reload)
       THEN /\ reads < MaxReads
            /\ \/ /\ reads' = reads + 1
                  /\ dm_df' = reads + 1
                  /\ dm_log' = [ dm_log EXCEPT
                        !.forced = IF force_reload /\ dm_df # 0
                                     THEN @ + 1 ELSE @,
                        !.last = DmCall("load_data", force_reload, "returned",
                                        dm_df, dm_schema, reads + 1) ]
               \/ /\ dm_df' = DfAfterFailedLoad(dm_df)
                  /\ Logged(DmCall("load_data", force_reload, "read_failed",
                                   dm_df, dm_schema, 0))
                  /\ UNCHANGED reads
       ELSE /\ Logged(DmCall("load_data", force_reload, "returned",
                             dm_df, dm_schema, dm_df))
            /\ UNCHANGED << dm_df, reads >>
  /\ UNCHANGED << pc, frame, ret, asked, calls, execArg, sandbox, fault,
                  respArg, responder, effect, touched, dm_schema, config,
                  cleaning >>

\* DataManager.get_schema(force_refresh), called directly: df =
\* self.load_data() reads the file if no DataFrame is cached, and
\* extract_schema(df) is cached and returned, or either of them raises.
GetSchema(force_refresh) ==
  /\ Sequential
  /\ IF MustExtract(dm_schema, force_refresh)
       THEN \/ /\ dm_df # 0
               /\ dm_log.extracts < MaxExtracts
               /\ dm_schema' = dm_df
               /\ dm_log' = [ dm_log EXCEPT
                     !.extracts = @ + 1,
                     !.refreshes = IF force_refresh /\ dm_schema # 0
                                     THEN @ + 1 ELSE @,
                     !.last = DmCall("get_schema", force_refresh, "returned",
                                     dm_df, dm_schema, dm_df) ]
               /\ UNCHANGED << dm_df, reads >>
            \/ /\ dm_df = 0
               /\ reads < MaxReads
               /\ dm_log.extracts < MaxExtracts
               /\ reads' = reads + 1
               /\ dm_df' = reads + 1
               /\ dm_schema' = reads + 1
               /\ dm_log' = [ dm_log EXCEPT
                     !.extracts = @ + 1,
                     !.last = DmCall("get_schema", force_refresh, "returned",
                                     dm_df, dm_schema, reads + 1) ]
            \/ /\ dm_df = 0
               /\ dm_df' = DfAfterFailedLoad(dm_df)
               /\ Logged(DmCall("get_schema", force_refresh, "read_failed",
                                dm_df, dm_schema, 0))
               /\ UNCHANGED << dm_schema, reads >>
            \/ /\ dm_df = 0
               /\ reads < MaxReads
               /\ reads' = reads + 1
               /\ dm_df' = reads + 1
               /\ Logged(DmCall("get_schema", force_refresh, "extract_failed",
                                dm_df, dm_schema, 0))
               /\ UNCHANGED dm_schema
            \/ /\ dm_df # 0
               /\ Logged(DmCall("get_schema", force_refresh, "extract_failed",
                                dm_df, dm_schema, 0))
               /\ UNCHANGED << dm_df, dm_schema, reads >>
       ELSE /\ Logged(DmCall("get_schema", force_refresh, "returned",
                             dm_df, dm_schema, dm_schema))
            /\ UNCHANGED << dm_df, dm_schema, reads >>
  /\ UNCHANGED << pc, frame, ret, asked, calls, execArg, sandbox, fault,
                  respArg, responder, effect, touched, config, cleaning >>

\* Step 3: gen_result = self._generate_code(question, schema)
Generate(p, codes) ==
  /\ pc[p] = "generate"
  /\ Called(p, "generate_code")
  /\ \E g \in GenerationOutcomes(codes) :
       IF g.raised
         THEN /\ fault' = [ fault EXCEPT ![p] =
                              [ stage |-> "generate_code", exc |-> g.exc ] ]
              /\ Complete(p, OuterHandler(frame[p], g.exc))
              /\ UNCHANGED frame
         ELSE /\ frame' = [ frame EXCEPT ![p].gen = g.value ]
              /\ UNCHANGED fault
              /\ IF StageAfterGenerate(g.value) = "done"
                   THEN Complete(p, Returned(create_error_result(
                          frame[p].question, "Could not generate analysis code",
                          "GENERATION_FAILED", TotalTime(frame'[p]), EmptyCode)))
                   ELSE Goto(p, StageAfterGenerate(g.value))
  /\ UNCHANGED << respArg, responder, effect, touched, asked, execArg,
                  sandbox, dm_df, dm_schema, reads, config, cleaning,
                  dm_log >>

\* Step 4: val_result = self._validate_code(gen_result.code);
\* warnings.extend(val_result.warnings)
ValidateCode(p) ==
  /\ pc[p] = "validate"
  /\ Called(p, "validate_code")
  /\ \E r \in ValidationOutcomes(frame[p].gen.code) :
       /\ IF r.raised
            THEN /\ fault' = [ fault EXCEPT ![p] =
                                 [ stage |-> "validate_code", exc |-> r.exc ] ]
                 /\ UNCHANGED frame
            ELSE /\ frame' = [ frame EXCEPT ![p].val = r.value,
                                 ![p].warnings = ExtendWarnings(@, r.value) ]
                 /\ UNCHANGED fault
       /\ IF StageAfterValidate(r) = "done"
            THEN Complete(p, ValidationHandler(frame[p], r.exc))
            ELSE Goto(p, StageAfterValidate(r))
  /\ UNCHANGED << respArg, responder, effect, touched, asked, execArg,
                  sandbox, dm_df, dm_schema, reads, config, cleaning,
                  dm_log >>

\* Step 5: exec_result = self._execute_code(val_result.sanitized_code, df)
ExecuteCode(p, values, effects) ==
  /\ pc[p] = "execute"
  /\ Called(p, "execute_code")
  /\ execArg' = [ execArg EXCEPT ![p] = ExecArgument(frame[p]) ]
  /\ \E eff \in effects :
       /\ effect' = [ effect EXCEPT ![p] = eff ]
       /\ touched' = TouchedByExecution(touched, DatasetArgument(frame[p]), eff)
  /\ \E x \in ExecutionOutcomes(values) :
       /\ sandbox' = [ sandbox EXCEPT ![p] = x.cause ]
       /\ IF x.outcome.raised
            THEN /\ fault' = [ fault EXCEPT ![p] =
                                 [ stage |-> "execute_code", exc |-> x.outcome.exc ] ]
                 /\ Complete(p, OuterHandler(frame[p], x.outcome.exc))
                 /\ UNCHANGED frame
            ELSE LET exec_result == x.outcome.value
                 IN /\ frame' = [ frame EXCEPT ![p].exe = exec_result ]
                    /\ UNCHANGED fault
                    /\ IF StageAfterExecute(exec_result) = "done"
                         THEN Complete(p, Returned(create_error_result(
                                frame[p].question,
                                IF exec_result.error \in {None, ""}
                                  THEN "Execution failed"
                                  ELSE exec_result.error,
                                "EXECUTION_FAILED", TotalTime(frame'[p]),
                                frame[p].gen.code)))
                         ELSE Goto(p, StageAfterExecute(exec_result))
  /\ UNCHANGED << respArg, responder, asked, dm_df, dm_schema, reads, config,
                  cleaning,
                  dm_log >>

\* Step 6: formatted_result, result_type =
\* format_result_for_display(exec_result.result)
FormatResult(p) ==
  /\ pc[p] = "format"
  /\ Called(p, "format_result_for_display")
  /\ LET r == format_result_for_display(frame[p].exe.result)
     IN IF r.raised
          THEN /\ fault' = [ fault EXCEPT ![p] =
                               [ stage |-> "format_result_for_display",
                                 exc |-> r.exc ] ]
               /\ Complete(p, OuterHandler(frame[p], r.exc))
               /\ UNCHANGED frame
          ELSE /\ frame' = [ frame EXCEPT ![p].fmt = r.value ]
               /\ Goto(p, "respond")
               /\ UNCHANGED fault
  /\ UNCHANGED << respArg, responder, effect, touched, asked, execArg,
                  sandbox, dm_df, dm_schema, reads, config, cleaning,
                  dm_log >>

\* Step 6: answer = self._generate_response(question, formatted_result,
\* gen_result.code), which returns the collaborator's text or, when the
\* collaborator raises, the fallback text; then the success result.
Respond(p) ==
  /\ pc[p] = "respond"
  /\ Called(p, "generate_response")
  /\ respArg' = [ respArg EXCEPT ![p] = ResponseArgument(frame[p]) ]
  /\ \E o \in ResponseOutcomes :
       /\ responder' = [ responder EXCEPT ![p] =
                            IF o.raised THEN "raised" ELSE "returned" ]
       /\ LET answer == generate_response(o, frame[p].fmt.text)
          IN IF answer.raised
               THEN /\ fault' = [ fault EXCEPT ![p] =
                                    [ stage |-> "generate_response",
                                      exc |-> answer.exc ] ]
                    /\ Complete(p, OuterHandler(frame[p], answer.exc))
               ELSE /\ UNCHANGED fault
                    /\ Complete(p, Returned(QueryResult(TRUE,
                         frame[p].question, answer.value, frame[p].exe.result,
                         frame[p].fmt.type, ResultCode(frame[p]),
                         frame[p].exe.execution_time_ms,
                         frame[p].gen.generation_time_ms, TotalTime(frame[p]),
                         None, None, frame[p].warnings)))
  /\ UNCHANGED << effect, touched, frame, asked, execArg, sandbox, dm_df,
                  dm_schema, reads, config, cleaning, dm_log >>

\* The caller takes the result (or the exception); the user may ask again.
Finish(p) ==
  /\ pc[p] \in {"done", "raised"}
  /\ pc' = [ pc EXCEPT ![p] = "idle" ]
  /\ frame' = [ frame EXCEPT ![p] = NoFrame ]
  /\ ret' = [ ret EXCEPT ![p] = <<>> ]
  /\ asked' = [ asked EXCEPT ![p] = Unset ]
  /\ calls' = [ calls EXCEPT ![p] = <<>> ]
  /\ execArg' = [ execArg EXCEPT ![p] = Unset ]
  /\ sandbox' = [ sandbox EXCEPT ![p] = "none" ]
  /\ fault' = [ fault EXCEPT ![p] = Unset ]
  /\ respArg' = [ respArg EXCEPT ![p] = Unset ]
  /\ responder' = [ responder EXCEPT ![p] = "none" ]
  /\ effect' = [ effect EXCEPT ![p] = "none" ]
  /\ UNCHANGED << touched, dm_df, dm_schema, reads, config, cleaning,
                  dm_log >>

(***************************************************************************)
(* Inputs and specifications.                                              *)
(***************************************************************************)
\* Questions at and just over the length limit, with and without
\* surrounding whitespace, with and without a dangerous pattern.
Questions ==
  [ len : {max_input_length, max_input_length + 1}, pad : {0, 1},
    unsafe : BOOLEAN ]

\* Candidate code as the generator may return it: the scenarios of the
\* specification and the shapes the validator tells apart.
ScenarioCodes ==
  { \* grouped = df.groupby('course_name')['score'].mean(); grouped
    Code(TRUE, FALSE, << Node("name", "grouped"), Node("name", "df"),
                         Node("call", "groupby"), Node("call", "mean") >>),
    \* tmp = df.foo()  # followed by a long trailing explanation
    Code(TRUE, TRUE, << Node("name", "tmp"), Node("name", "df"),
                        Node("call", "foo") >>),
    \* import os; os.system('rm -rf /')
    Code(TRUE, FALSE, << Node("import", "os"), Node("name", "os"),
                         Node("call", "system") >>),
    \* df.apply(lambda x: x + 1)
    Code(TRUE, FALSE, << Node("name", "df"), Node("call", "apply"),
                         Node("lambda", "lambda") >>),
    \* df.groupby('level'
    Code(FALSE, FALSE, <<>>) }

\* What the sandboxed code may evaluate to.
PipelineValues ==
  { NoneValue, Value("dataframe", 21), Value("series", 3), Value("int", 7),
    Value("figure", 2), Value("unprintable", 0) }

\* What the generated code may do to the dataset it runs on: nothing, rebind
\* the dataset name, or change the object in place.
DatasetEffects == {"none", "rebind", "mutate"}

Step(p, questions, codes, values, effects) ==
  \/ Start(p, questions)
  \/ ValidateInput(p)
  \/ LoadCheck(p)
  \/ LoadRead(p)
  \/ SchemaCheck(p)
  \/ SchemaExtract(p)
  \/ Generate(p, codes)
  \/ ValidateCode(p)
  \/ ExecuteCode(p, values, effects)
  \/ FormatResult(p)
  \/ Respond(p)
  \/ Finish(p)

\* Several users' questions in flight, over the scenario codes.
Next ==
  \E p \in Procs :
    Step(p, Questions, ScenarioCodes, PipelineValues, {"none"})

Spec == Init /\ [][Next]_vars

\* The identifiers the validator's sets tell apart: the dataset name, an
\* allowed operation, one that is both allowed and blocked, a blocked
\* operation, a blocked module, one that is both a blocked operation and a
\* blocked module, an allowed operation that is also an allowed variable, and
\* one in no set.
SampleIdents ==
  { DatasetName, "mean", "rename", "eval", "os", "pickle", "data", "foo" }

SampleNodes ==
  { Node(k, id) : k \in {"import", "name", "attr", "call"}, id \in SampleIdents }
    \cup { Node("lambda", "lambda") }

MaxNodes == 2

RECURSIVE NodeSeqs(_)
NodeSeqs(n) ==
  IF n = 0 THEN { <<>> }
  ELSE LET shorter == NodeSeqs(n - 1)
       IN shorter \cup { Append(s, x) : s \in { t \in shorter : Len(t) = n - 1 },
                                        x \in SampleNodes }

\* Every code of at most MaxNodes nodes over the sample identifiers; a code
\* that does not parse has no syntax tree.
AllCodes ==
  { Code(TRUE, c, s) : c \in BOOLEAN, s \in NodeSeqs(MaxNodes) }
    \cup { Code(FALSE, FALSE, <<>>) }

\* One user's question, over every code of the bounded set.
NextValidate ==
  \E p \in {"u1"} :
    Step(p, Questions, AllCodes, PipelineValues, {"none"})

SpecValidate == Init /\ [][NextValidate]_vars

\* Several users' questions in flight on the one DataManager, with generated
\* code that rebinds or changes the dataset it runs on.
DatasetQuestions == { [ len |-> max_input_length, pad |-> 0, unsafe |-> FALSE ] }

DatasetCodes ==
  { \* df['score'] = 0; df = df.head(0); df
    Code(TRUE, FALSE, << Node("name", "df"), Node("call", "head") >>) }

NextDataset ==
  \E p \in Procs :
    Step(p, DatasetQuestions, DatasetCodes, {NoneValue, Value("dataframe", 0)},
         DatasetEffects)

SpecDataset == Init /\ [][NextDataset]_vars

\* Questions in flight under fair scheduling.  A call that has started takes
\* its next step: the thread that runs it is scheduled, and every collaborator
\* it calls returns or raises (the executor at the latest at its deadline).
LiveQuestions ==
  { [ len |-> max_input_length, pad |-> 1, unsafe |-> FALSE ],
    [ len |-> max_input_length + 1, pad |-> 0, unsafe |-> FALSE ] }

LiveValues == { NoneValue, Value("unprintable", 0) }

StepLive(p) == Step(p, LiveQuestions, ScenarioCodes, LiveValues, {"none"})

Running(p) == pc[p] \notin {"idle", "done", "raised"} /\ StepLive(p)

NextLive == \E p \in Procs : StepLive(p)

SpecLive ==
  Init /\ [][NextLive]_vars /\ \A p \in Procs : WF_vars(Running(p))

\* Every kind of result, and tables and series of every length up to
\* MaxRows, through the pipeline of one caller.
MaxRows == 57

ResultKinds ==
  { "figure", "int", "float", "bool", "numpy_float64", "numpy_int64", "list",
    "tuple", "str", "dict", "unprintable" }

AllValues ==
  { Value(k, n) : k \in {"dataframe", "series"}, n \in 0..MaxRows }
    \cup { Value(k, n) : k \in ResultKinds, n \in 0..2 }
    \cup { NoneValue }

NextFormat ==
  \E p \in {"u1"} :
    Step(p, DatasetQuestions, DatasetCodes, AllValues, {"none"})

SpecFormat == Init /\ [][NextFormat]_vars

\* Lines of code for clean_code: up to MaxParts pieces of the lengths on
\* both sides of the two thresholds, 30 and 50.  A blank piece is all
\* trailing whitespace; a '#' can stand inside a string literal only after a
\* piece that holds the opening quote.
MaxParts == 3

PieceLens == {0, 19, 29, 30}

Pieces ==
  { Piece(n, n, TRUE) : n \in PieceLens }
    \cup { Piece(n, t, FALSE) : n \in PieceLens \ {0}, t \in {0, 1} }

CodeLines ==
  { l \in UNION { [ parts : [ 1..n -> Pieces ], quoted : [ 1..(n - 1) -> BOOLEAN ] ] :
                    n \in 1..MaxParts } :
      \A k \in 1..Len(l.quoted) :
        l.quoted[k] => \E j \in 1..k : ~l.parts[j].blank }

InitClean ==
  /\ InitCalls
  /\ cleaning \in { [ line |-> l, out |-> Unset ] : l \in CodeLines }

\* clean_code is applied to the line.
CleanCode ==
  /\ cleaning.line # Unset /\ cleaning.out = Unset
  /\ cleaning' = [ cleaning EXCEPT !.out = clean_code_line(cleaning.line) ]
  /\ UNCHANGED << pc, frame, ret, asked, calls, execArg, sandbox, fault,
                  respArg, responder, effect, touched, dm_df, dm_schema,
                  reads, config, dm_log >>

SpecClean == InitClean /\ [][CleanCode]_vars

\* One client of the DataManager: questions and direct calls of load_data
\* and get_schema, with and without force_reload and force_refresh, one
\* after the other.
NextData ==
  \/ \E p \in {"u1"} :
       Step(p, DatasetQuestions, DatasetCodes, {NoneValue}, {"none"})
  \/ \E force_reload \in BOOLEAN : LoadData(force_reload)
  \/ \E force_refresh \in BOOLEAN : GetSchema(force_refresh)

SpecData == Init /\ [][NextData]_vars

(***************************************************************************)
(* Properties.                                                             *)
(***************************************************************************)
Done(p) == pc[p] = "done"

Result(p) == ret[p][1]

Invoked(p, stage) == \E i \in 1..Len(calls[p]) : calls[p][i] = stage

Count(p, stage) == Cardinality({ i \in 1..Len(calls[p]) : calls[p][i] = stage })

\* A stage of the call raised, at the given stage.
RaisedAt(p, stage) == fault[p] # Unset /\ fault[p].stage = stage

\* Some stage of the call failed: it raised, or it returned a failure.
StageFailed(p) ==
  \/ fault[p] # Unset
  \/ frame[p].gen # Unset /\ ~frame[p].gen.success
  \/ frame[p].exe # Unset /\ ~frame[p].exe.success

UnexpectedMessage == "An unexpected error occurred. Please try again."

\* C1: a stage runs only if every earlier stage succeeded: validate_code is
\* called only after input validation, data loading and generation
\* succeeded; execute_code only after validate_code accepted the code; the
\* classifier and the response generator only after execute_code returned
\* success; and a call in which a stage failed ends with success = false and
\* an error code.
StagesShortCircuit ==
  \A p \in Procs :
    /\ Invoked(p, "validate_code") =>
         /\ ~validate_input(asked[p]).raised
         /\ frame[p].df # 0 /\ frame[p].schema # 0
         /\ frame[p].gen # Unset /\ frame[p].gen.success
    /\ Invoked(p, "execute_code") =>
         /\ frame[p].val # Unset
         /\ ~RaisedAt(p, "validate_code")
    /\ ( Invoked(p, "format_result_for_display")
           \/ Invoked(p, "generate_response") ) =>
         /\ frame[p].exe # Unset /\ frame[p].exe.success
    /\ StageFailed(p) =>
         /\ Done(p)
         /\ ~Result(p).success
         /\ Result(p).error_code # None

\* A rejected import: validation was the last stage called.
RejectedImportEndsCall ==
  \E p \in Procs :
    /\ Done(p)
    /\ RaisedAt(p, "validate_code")
    /\ fault[p].exc.cls = "SecurityViolationError"
    /\ calls[p][Len(calls[p])] = "validate_code"
    /\ ~Result(p).success

\* C2: execute_code is called only with the sanitized_code of the
\* ValidationResult that validate_code returned in this call for the
\* generated code, never with the raw candidate code, and never without a
\* ValidationResult.
ExecutesOnlySanitizedCode ==
  \A p \in Procs :
    /\ Invoked(p, "execute_code") =>
         /\ frame[p].val # Unset
         /\ validate_code(frame[p].gen.code) = Returned(frame[p].val)
         /\ execArg[p] = frame[p].val.sanitized_code
         /\ frame[p].gen.code.comment => execArg[p] # frame[p].gen.code
    /\ frame[p].val = Unset => execArg[p] = Unset

\* The executor was handed code that differs from the candidate code.
ExecutedCodeDiffersFromCandidate ==
  \E p \in Procs :
    /\ Invoked(p, "execute_code")
    /\ execArg[p] # frame[p].gen.code
    /\ execArg[p] = Sanitize(frame[p].gen.code)

\* C3: at most one sandboxed execution per call, exactly one for a call that
\* reached execution and ended, and no stage is invoked twice: a rejection
\* or a failure is reported without a retry.
NoStageRunsTwice ==
  \A p \in Procs :
    /\ \A i, j \in 1..Len(calls[p]) : calls[p][i] = calls[p][j] => i = j
    /\ Count(p, "execute_code") <= 1
    /\ Done(p) /\ frame[p].val # Unset => Count(p, "execute_code") = 1
    /\ Done(p) /\ frame[p].val = Unset => Count(p, "execute_code") = 0

\* A failed execution was reported after the one execution.
FailedExecutionReportedOnce ==
  \E p \in Procs :
    /\ Done(p)
    /\ sandbox[p] = "runtime"
    /\ Count(p, "execute_code") = 1
    /\ Count(p, "generate_code") = 1
    /\ ~Result(p).success

\* C4: whatever validate_code or execute_code does (a returned failure, a
\* ChatbotError, any other exception), process_question does not raise: the
\* call ends with one QueryResult, with success = false.
ValidationAndExecutionErrorsNeverPropagate ==
  \A p \in Procs :
    /\ pc[p] # "raised"
    /\ ( \/ RaisedAt(p, "validate_code")
         \/ RaisedAt(p, "execute_code")
         \/ frame[p].exe # Unset /\ ~frame[p].exe.success ) =>
         /\ Done(p)
         /\ Len(ret[p]) = 1
         /\ ~Result(p).success

\* The executor raised an exception that is no ChatbotError, and the call
\* returned.
ExecutorExceptionReturned ==
  \E p \in Procs :
    /\ Done(p)
    /\ RaisedAt(p, "execute_code")
    /\ ~fault[p].exc.chatbot
    /\ ~Result(p).success

\* C5: when a stage raises an exception that is not a ChatbotError, the
\* result has the code UNEXPECTED_ERROR and the generic message, and the
\* exception's text is nowhere in it.
UnclassifiedErrorsAreUnexpected ==
  \A p \in Procs :
    Done(p) /\ fault[p] # Unset /\ ~fault[p].exc.chatbot =>
      /\ Result(p).error_code = "UNEXPECTED_ERROR"
      /\ Result(p).error = UnexpectedMessage
      /\ Result(p).answer = "Error: " \o UnexpectedMessage
      /\ Result(p).error # fault[p].exc.text

\* C6: an execution that runs past the deadline is reported with
\* success = false and the code EXECUTION_TIMEOUT, which differs from the
\* code reported for a runtime exception and for the memory ceiling.
TimeoutHasItsOwnCode ==
  /\ \A p \in Procs :
       Done(p) /\ sandbox[p] = "timeout" =>
         /\ ~Result(p).success
         /\ Result(p).error_code = "EXECUTION_TIMEOUT"
  /\ \A p, q \in Procs :
       /\ Done(p) /\ sandbox[p] = "timeout"
       /\ Done(q) /\ sandbox[q] \in {"runtime", "memory"}
       => Result(p).error_code # Result(q).error_code

\* The rejection validate_code raised in this call, by its error code.
RejectedAs(p, code) ==
  /\ Done(p)
  /\ RaisedAt(p, "validate_code")
  /\ fault[p].exc.chatbot
  /\ fault[p].exc.code = code

\* C7: a rejection for a syntax error and a rejection for a denylist match
\* are reported with different error codes.
RejectionKindsHaveOwnCodes ==
  \A p, q \in Procs :
    RejectedAs(p, "SYNTAX_ERROR") /\ RejectedAs(q, "SECURITY_VIOLATION") =>
      Result(p).error_code # Result(q).error_code

\* C8: a question longer than max_input_length ends the call with
\* success = false and the code INPUT_TOO_LONG, before any later step: the
\* dataset is not loaded for it, and the generator, the validator and the
\* executor are not called.
TooLongIsCaughtFirst ==
  \A p \in Procs :
    asked[p] # Unset /\ asked[p].len > max_input_length =>
      /\ pc[p] \in {"input", "done"}
      /\ \A i \in 1..Len(calls[p]) : calls[p][i] = "validate_input"
      /\ frame[p].df = 0 /\ frame[p].gen = Unset
      /\ Done(p) =>
           /\ ~Result(p).success
           /\ Result(p).error_code = "INPUT_TOO_LONG"

\* A question of max_input_length + 1 characters was refused.
TooLongQuestionRefused ==
  \E p \in Procs :
    /\ Done(p)
    /\ asked[p].len = max_input_length + 1
    /\ calls[p] = << "validate_input" >>
    /\ Result(p).error_code = "INPUT_TOO_LONG"

\* The code names a blocked operation, or a blocked module by importing it
\* or as the root of a dotted path.
HasBlockedToken(code) ==
  \E n \in NodesOf(code) :
    \/ n.kind \in {"name", "attr", "call"} /\ n.id \in blocked_operations
    \/ n.kind \in {"import", "name"} /\ n.id \in blocked_modules

\* C9: code that parses and contains a blocked operation or a blocked
\* module is rejected by validate_code with a security violation, whatever
\* else it contains and whatever other set lists the identifier, and
\* process_question never executes it.
BlockedCodeIsNeverExecuted ==
  \A p \in Procs :
    ( /\ frame[p].gen # Unset /\ frame[p].gen.success
      /\ frame[p].gen.code.parses
      /\ HasBlockedToken(frame[p].gen.code) ) =>
      /\ validate_code(frame[p].gen.code).raised
      /\ validate_code(frame[p].gen.code).exc.cls = "SecurityViolationError"
      /\ validate_code(frame[p].gen.code).exc.code = "SECURITY_VIOLATION"
      /\ pc[p] \in {"validate", "done"}
      /\ ~Invoked(p, "execute_code")
      /\ execArg[p] = Unset
      /\ Done(p) => ~Result(p).success

\* Code calling rename, which is both allowed and blocked, beside an allowed
\* call was rejected.
BlockedAndAllowedIdentifierRejected ==
  \E p \in Procs :
    /\ Done(p)
    /\ frame[p].gen # Unset
    /\ frame[p].gen.code.nodes = << Node("call", "mean"), Node("call", "rename") >>
    /\ RaisedAt(p, "validate_code")
    /\ fault[p].exc.code = "SECURITY_VIOLATION"
    /\ ~Invoked(p, "execute_code")

\* Every token of the code is an allowed operation or the dataset name.
OnlyAllowedTokens(code) ==
  /\ code.parses
  /\ \A n \in NodesOf(code) :
       /\ n.kind \in {"name", "attr", "call"}
       /\ n.id \in allowed_operations \cup {DatasetName}

\* C10: code whose tokens are all allowed operations or the dataset name is
\* accepted by validate_code, whatever other set lists an identifier.
AllowedCodeIsAccepted ==
  \A p \in Procs :
    ( /\ Invoked(p, "validate_code")
      /\ OnlyAllowedTokens(frame[p].gen.code) ) =>
      /\ ~validate_code(frame[p].gen.code).raised
      /\ ~(RaisedAt(p, "validate_code") /\ fault[p].exc.chatbot)

\* C11: on a successful query the code handed to the response generator, and
\* the code reported in QueryResult.code, is the sanitized code that was
\* executed, not the candidate code as the generator returned it.
SummarizedCodeIsExecutedCode ==
  \A p \in Procs :
    /\ Invoked(p, "generate_response") => respArg[p] = execArg[p]
    /\ (Done(p) /\ Result(p).success) => Result(p).code = execArg[p]

DatasetIsLoadedOnce ==
  /\ reads <= 1
  /\ \A p, q \in Procs :
       (frame[p].df # 0 /\ frame[q].df # 0) => frame[p].df = frame[q].df

\* C14: every process_question call, once started, eventually returns
\* exactly one QueryResult, whatever the other calls in flight do.
EveryCallReturnsOneResult ==
  \A p \in Procs : (pc[p] = "input") ~> (Done(p) /\ Len(ret[p]) = 1)

\* C14 witness: a call has returned its result while another call is waiting
\* for its execution.
ReturnedBesideRunningCall ==
  \E p, q \in Procs :
    /\ p # q
    /\ Done(p) /\ Len(ret[p]) = 1 /\ Invoked(p, "execute_code")
    /\ pc[q] = "execute"

\* The result a call is formatting or has formatted, and its text.
Formatted(p) == frame[p].fmt # Unset

\* C15 as stated: a DataFrame or Series of N rows is shown, if N > 20, under
\* a "first 10 and last 10 of N rows" header with exactly its first 10 and
\* last 10 rows in order, and if N <= 20 with all its rows and no header.
TruncationHeaderSaysRows ==
  \A p \in Procs :
    (Formatted(p) /\ frame[p].exe.result.kind \in {"dataframe", "series"}) =>
      LET n == frame[p].exe.result.n
          text == frame[p].fmt.text
      IN IF n > 20
           THEN /\ text.header = "Showing first 10 and last 10 of "
                                   \o ToString(n) \o " rows:"
                /\ Len(text.rows) = 20
                /\ \A i \in 1..10 : text.rows[i] = i /\ text.rows[10 + i] = n - 10 + i
           ELSE /\ text.header = ""
                /\ Len(text.rows) = n
                /\ \A i \in 1..n : text.rows[i] = i

\* C15, amended: the same, except that the header of a Series counts
\* "items": "first 10 and last 10 of N items".
TruncatedDisplayShowsEnds ==
  \A p \in Procs :
    (Formatted(p) /\ frame[p].exe.result.kind \in {"dataframe", "series"}) =>
      LET n == frame[p].exe.result.n
          text == frame[p].fmt.text
          noun == IF frame[p].exe.result.kind = "series" THEN "items" ELSE "rows"
      IN IF n > 20
           THEN /\ text.header = "Showing first 10 and last 10 of "
                                   \o ToString(n) \o " " \o noun \o ":"
                /\ Len(text.rows) = 20
                /\ \A i \in 1..10 : text.rows[i] = i /\ text.rows[10 + i] = n - 10 + i
           ELSE /\ text.header = ""
                /\ Len(text.rows) = n
                /\ \A i \in 1..n : text.rows[i] = i

\* C15 witness: a Series of 21 rows, the shortest that is truncated, has
\* been formatted.
SeriesOf21Formatted ==
  \E p \in Procs : Formatted(p) /\ frame[p].exe.result = Value("series", 21)

\* C16 as stated: every result gets exactly one tag by its kind, "table" for
\* a table, "series" for a series, "scalar" for a numeric scalar, "list" for
\* a list or sequence, "figure" for a figure and "other" for anything else,
\* and QueryResult.data_type carries that tag on success.
ClaimedTag(v) ==
  CASE v.kind = "dataframe" -> "table"
    [] v.kind = "series" -> "series"
    [] v.kind \in {"int", "float", "bool", "numpy_float64", "numpy_int64"} ->
         "scalar"
    [] v.kind \in {"list", "tuple"} -> "list"
    [] v.kind = "figure" -> "figure"
    [] OTHER -> "other"

ResultsAreTaggedAsClaimed ==
  \A p \in Procs :
    /\ Formatted(p) => frame[p].fmt.type = ClaimedTag(frame[p].exe.result)
    /\ (Done(p) /\ Result(p).success) =>
         Result(p).data_type = ClaimedTag(Result(p).data)

\* C16, amended: the tag of a table is "dataframe" and the tag of a figure
\* is "plotly_figure"; "scalar" is the tag of the instances of Python's int
\* and float (bool and numpy.float64 among them), and a numeric scalar of
\* another type, such as numpy.int64, is tagged "other".
CodeTag(v) ==
  CASE v.kind = "dataframe" -> "dataframe"
    [] v.kind = "series" -> "series"
    [] v.kind \in {"int", "float", "bool", "numpy_float64"} -> "scalar"
    [] v.kind \in {"list", "tuple"} -> "list"
    [] v.kind = "figure" -> "plotly_figure"
    [] OTHER -> "other"

ResultsAreTaggedByType ==
  \A p \in Procs :
    /\ Formatted(p) => frame[p].fmt.type = CodeTag(frame[p].exe.result)
    /\ (Done(p) /\ Result(p).success) =>
         Result(p).data_type = CodeTag(Result(p).data)

\* C16 witness: a successful query whose result is a figure has returned.
FigureResultReturned ==
  \E p \in Procs :
    Done(p) /\ Result(p).success /\ Result(p).data.kind = "figure"

\* C17: a run that produces no output value is not an error: when
\* execute_code returns success with a none result, the QueryResult has
\* success = true, no error and no error_code, and the classifier's text for
\* None with the tag "other".
NoOutputIsNotAnError ==
  \A p \in Procs :
    ( /\ Done(p)
      /\ frame[p].exe # Unset
      /\ frame[p].exe.success /\ frame[p].exe.result = NoneValue ) =>
      /\ Result(p).success
      /\ Result(p).error = None /\ Result(p).error_code = None
      /\ Result(p).data = NoneValue /\ Result(p).data_type = "other"
      /\ frame[p].fmt.text = DisplayText("None", <<>>)

\* C17 witness: a call whose execution succeeded without a value has
\* returned.
RunWithoutValueReturned ==
  \E p \in Procs :
    /\ Done(p) /\ Invoked(p, "generate_response")
    /\ frame[p].exe.success /\ frame[p].exe.result = NoneValue

\* C18: stage timings are recorded in every QueryResult: one returned after
\* the generator produced its result carries the generator's
\* generation_time_ms, one returned after execute_code returned carries the
\* executor's execution_time_ms, and total_time_ms is set in every one,
\* failed or successful.
StageTimingsAreRecorded ==
  \A p \in Procs :
    Done(p) =>
      /\ frame[p].gen # Unset =>
           Result(p).generation_time_ms = frame[p].gen.generation_time_ms
      /\ frame[p].exe # Unset =>
           Result(p).execution_time_ms = frame[p].exe.execution_time_ms
      /\ Result(p).total_time_ms > 0

ErrorCodesAreInTaxonomy ==
  \A p \in Procs :
    (Done(p) /\ Result(p).error_code # None) =>
      Result(p).error_code \in (DOMAIN ErrorCode) \cup {"UNEXPECTED_ERROR"}

\* C26: the error code INPUT_TOO_LONG is reported only for a question longer
\* than max_input_length; a question within the limit that is refused for an
\* unsafe pattern is reported with another code.
TooLongCodeOnlyForLongQuestions ==
  \A p \in Procs :
    (Done(p) /\ Result(p).error_code = "INPUT_TOO_LONG") =>
      asked[p].len > max_input_length

\* C27: every returned QueryResult has one of two shapes: a failure has no
\* data, data_type "none", an error and an error_code, and the answer
\* "Error: " followed by the error; a success has neither error nor
\* error_code.
ResultShapesNeverMix ==
  \A p \in Procs :
    Done(p) =>
      /\ ~Result(p).success =>
           /\ Result(p).data = NoneValue /\ Result(p).data_type = "none"
           /\ Result(p).error # None /\ Result(p).error_code # None
           /\ Result(p).answer = "Error: " \o Result(p).error
      /\ Result(p).success =>
           /\ Result(p).error = None /\ Result(p).error_code = None

\* C27 witness: a call whose execution failed has returned its error result
\* while another call has returned a success.
FailureAndSuccessReturned ==
  \E p, q \in Procs :
    /\ Done(p) /\ ~Result(p).success /\ Invoked(p, "execute_code")
    /\ Done(q) /\ Result(q).success

\* C25: a failure of the response generator never fails the query: when it
\* raises after a successful execution, the QueryResult has success = true,
\* the executed result as data, the classifier's tag as data_type, and the
\* answer "Here are the results:" followed by the display text.
ResponseFailureFallsBack ==
  \A p \in Procs :
    (Done(p) /\ responder[p] = "raised") =>
      /\ Result(p).success
      /\ Result(p).data = frame[p].exe.result
      /\ Result(p).data_type = frame[p].fmt.type
      /\ Result(p).answer.prefix = "Here are the results:\n\n"
      /\ Result(p).answer.results = frame[p].fmt.text

\* C25 witness: a call whose result is a truncated table has returned after
\* its response generator raised.
ReturnedAfterResponseFailure ==
  \E p \in Procs :
    /\ Done(p) /\ responder[p] = "raised"
    /\ frame[p].exe.result = Value("dataframe", 21)

CodePart(line) ==
  LET hashes == { k \in 1..Len(line.quoted) : ~line.quoted[k] }
      last == IF hashes = {} THEN Len(line.parts)
              ELSE CHOOSE k \in hashes : \A j \in hashes : k <= j
  IN [ parts |-> [ i \in 1..last |->
                     IF i = last THEN RStrip(line.parts[i]) ELSE line.parts[i] ],
       quoted |-> [ i \in 1..(last - 1) |-> line.quoted[i] ] ]

\* C28: the removal of trailing long comments leaves the code part of every
\* kept line unchanged; a '#' inside a string literal is not taken for the
\* start of a comment.
CleaningKeepsTheCode ==
  (cleaning.out # Unset /\ cleaning.out.kept) =>
    CodePart(cleaning.out.line) = CodePart(cleaning.line)

\* The last call of the DataManager, when it was one of the given method
\* that returned.
LastReturned(op) ==
  dm_log.last.op = op /\ dm_log.last.outcome = "returned"

\* C22: over any sequence of load_data, df, get_schema and schema calls the
\* data file is read only when no DataFrame is cached or force_reload is
\* true, so without force_reload it is read at most once and every call
\* returns the cached DataFrame; and the schema is extracted at most once
\* unless force_refresh is true.
FileIsReadOnlyWhenNeeded ==
  /\ reads - dm_log.forced <= 1
  /\ dm_log.extracts - dm_log.refreshes <= 1
  /\ LastReturned("load_data") => dm_log.last.returned = dm_df
  /\ (LastReturned("load_data") /\ ~dm_log.last.force /\ dm_log.last.df # 0) =>
       dm_log.last.returned = dm_log.last.df
  /\ (LastReturned("get_schema") /\ ~dm_log.last.force
        /\ dm_log.last.schema # 0) =>
       dm_log.last.returned = dm_log.last.schema

\* C22 witness: after a question was answered, load_data() without
\* force_reload has returned the DataFrame that the question's call cached,
\* the schema being cached too.
CachedDataFrameReturnedAgain ==
  \E p \in Procs :
    /\ Done(p) /\ Invoked(p, "generate_response")
    /\ LastReturned("load_data") /\ ~dm_log.last.force
    /\ dm_log.last.df = frame[p].df /\ dm_log.last.schema # 0
    /\ reads = 1

\* C23: whenever a schema is cached it is the schema of the cached
\* DataFrame, also after load_data(force_reload=True) replaced the
\* DataFrame; so process_question never generates code from the schema of
\* another dataset than the one it executes against.
SchemaIsOfCachedData ==
  /\ dm_schema # 0 => dm_schema = dm_df
  /\ \A p \in Procs :
       Invoked(p, "generate_code") => frame[p].schema = frame[p].df

\* C24: when reading the data file fails, the cached DataFrame and schema
\* are what they were before the call, and process_question returns
\* success = false with error_code DATA_LOAD_ERROR and the DataLoadError
\* user message, without calling the generator.
FailedLoadChangesNothing ==
  /\ dm_log.last.outcome = "read_failed" =>
       dm_df = dm_log.last.df /\ dm_schema = dm_log.last.schema
  /\ \A p \in Procs :
       (Done(p) /\ RaisedAt(p, "load_data")) =>
         /\ ~Result(p).success
         /\ Result(p).error_code = "DATA_LOAD_ERROR"
         /\ Result(p).error =
              "Could not load the data file. Please check if it exists."
         /\ ~Invoked(p, "generate_code")

\* C24 witness: a question was refused because the data file could not be
\* read, and later a load_data(force_reload=True) failed with a DataFrame
\* and a schema cached.
ForcedReloadFailed ==
  \E p \in Procs :
    /\ Done(p) /\ RaisedAt(p, "load_data")
    /\ dm_log.last.op = "load_data" /\ dm_log.last.force
    /\ dm_log.last.outcome = "read_failed"
    /\ dm_log.last.df # 0 /\ dm_log.last.schema # 0

============================================================================
